---- MODULE Spec2Model ----
(***************************************************************************)
(* The resource cache synchronization engine of                            *)
(* docs/flutter_service_worker.js: three cache namespaces, the install and *)
(* activate handlers, the fetch interceptor with its two serving policies, *)
(* the message handler and the offline hydrator.                           *)
(*                                                                         *)
(* A URL of the worker's origin is the record of what follows              *)
(* origin + "/": its path, its query ("" or the cache-busting token) and   *)
(* its fragment.  A string computed from a URL (a key) is the same record; *)
(* the manifest's root key "/" is Str("/", "", "").                        *)
(***************************************************************************)
EXTENDS Integers, FiniteSets, Sequences, TLC

\* ------------------------------------------------------------------ bounds
\* events the host dispatches in one run
MaxEvents == 3
\* entries the content namespace holds when the worker starts
MaxInitContent == 2
\* events the host dispatches in a run where fetches arrive during activation
MaxRaceEvents == 2

\* ----------------------------------------------------------- configuration
MANIFEST == "flutter-app-manifest"
TEMP == "flutter-temp-cache"
CACHE_NAME == "flutter-app-cache"
Names == {MANIFEST, TEMP, CACHE_NAME}

\* the value JavaScript gives for a missing property
Undefined == "<undefined>"
Falsy(v) == v \in {Undefined, ""}

Str(p, q, f) == [path |-> p, q |-> q, frag |-> f]
Url(p, q, f) == Str(p, q, f)
Empty == Str("", "", "")
RootKey == Str("/", "", "")
Token == "?v=1"
Hash == "#/page"

\* the current manifest (path -> fingerprint), cut down to four resources:
\* the root, two of the application shell and one that is loaded lazily
RESOURCES ==
    ("/" :> "h2") @@ ("index.html" :> "h2") @@ ("main.dart.js" :> "h2")
    @@ ("a.js" :> "h2")

\* the application shell, staged at install
CORE == <<"main.dart.js", "index.html">>

\* M[key] of JavaScript: only a plain path can be a property of a manifest
Get(M, key) ==
    IF key.q = "" /\ key.frag = "" /\ key.path \in DOMAIN M
    THEN M[key.path] ELSE Undefined

\* JSON.stringify of a manifest, and Response.json() of that text
JSONstringify(M) == {<<k, M[k]>> : k \in DOMAIN M}
JSONparse(text) ==
    [k \in {p[1] : p \in text} |-> (CHOOSE p \in text : p[1] = k)[2]]

\* new Request(value): a relative URL resolved against the worker's scope
Request(value) == IF value = "/" THEN Empty ELSE Url(value, "", "")

\* ------------------------------------------------------- the Cache objects
\* A cache is a set of entries [req, resp]; no two entries match the same
\* request.  A name that CacheStorage does not hold and an empty cache are
\* the same thing to every operation the worker uses: caches.open creates
\* the cache on demand.  An optional value is a set of at most one element.
NoFrag(u) == [u EXCEPT !.frag = ""]
Matches(e, u) == NoFrag(e.req) = NoFrag(u)
CacheMatch(c, u) == {e.resp : e \in {x \in c : Matches(x, u)}}
CachePut(c, u, r) == {e \in c : ~Matches(e, u)} \cup {[req |-> u, resp |-> r]}
CacheDelete(c, u) == {e \in c : ~Matches(e, u)}
CacheKeys(c) == {e.req : e \in c}

Resp(d, ok) == [data |-> d, ok |-> ok]
ManifestRequest == Url("manifest", "", "")
ManifestRecord(M) ==
    {[req |-> ManifestRequest, resp |-> Resp(JSONstringify(M), TRUE)]}

\* --------------------------------------------------------------- the network
\* The transport collaborator: a fetch fails ("fail"), is answered with an
\* error status ("bad"), or is answered with the deployed resource ("ok"),
\* whose data is that of the current manifest's fingerprint.  The server
\* ignores the query and never sees the fragment.
Served(u) == IF u.path = "" THEN RESOURCES["/"]
             ELSE Get(RESOURCES, Str(u.path, "", ""))
NetOutcomes(u) == {"fail", "bad"} \cup (IF Falsy(Served(u)) THEN {} ELSE {"ok"})
NetResponse(u, o) == IF o = "ok" THEN Resp(Served(u), TRUE)
                     ELSE Resp("error", FALSE)

VARIABLES
    caches,   \* CacheStorage: name -> cache
    inst,     \* the install handler's task
    act,      \* the activate handler's task
    ftch,     \* the fetch handler's task
    hyd,      \* the message handler and downloadOffline
    puts,     \* cache.put calls started and not awaited (lines 165, 211)
    host,     \* what the current event's handler asked of the host
    activated,\* the record of the last activation that succeeded, or {}
    nEvents   \* events dispatched so far

vars == <<caches, inst, act, ftch, hyd, puts, host, activated, nEvents>>


\* ------------------------------------------------------------- key derivation
\* a key derivation that strips the cache-busting token, as the fetch
\* handler's does
KeyOfStripsToken(u) ==
    LET b == [u EXCEPT !.q = ""]
    IN  IF b = Empty THEN RootKey ELSE b

\* lines 102-105 and 192-195: request.url.substring(origin.length + 1), the
\* empty string read as the root key
KeyOf(u) == IF u = Empty THEN RootKey ELSE u

\* a key from which the cache-busting token is not stripped
FetchKeyKeepsToken(u) ==
    IF (u.path = "" /\ u.q = "" /\ u.frag # "") \/ u = Empty
    THEN RootKey ELSE u

\* lines 141-148: the fetch handler's key.  request.url always carries the
\* path's slash, so the test url == origin never holds and has no case here.
FetchKey(u) ==
    LET key == IF u.q # "" THEN Str(u.path, "", "") ELSE u
    IN  IF (u.path = "" /\ u.q = "" /\ u.frag # "") \/ key = Empty
        THEN RootKey ELSE key

\* the eviction test without its first half: a resource the site no longer
\* has is forgotten
EvictChangedOnly(u, oldManifest) ==
    /\ ~Falsy(Get(RESOURCES, KeyOf(u)))
    /\ Get(RESOURCES, KeyOf(u)) # Get(oldManifest, KeyOf(u))

\* the eviction test without its second half: fingerprints are not compared
EvictRemovedOnly(u, oldManifest) == Falsy(Get(RESOURCES, KeyOf(u)))

\* an eviction test that keeps the entry of a resource the old manifest did
\* not have
EvictIgnoresNew(u, oldManifest) ==
    \/ Falsy(Get(RESOURCES, KeyOf(u)))
    \/ /\ ~Falsy(Get(oldManifest, KeyOf(u)))
       /\ Get(RESOURCES, KeyOf(u)) # Get(oldManifest, KeyOf(u))

\* line 109: the eviction test of the upgrade branch
Evict(u, oldManifest) ==
    \/ Falsy(Get(RESOURCES, KeyOf(u)))
    \/ Get(RESOURCES, KeyOf(u)) # Get(oldManifest, KeyOf(u))

\* ------------------------------------------------------------------- tasks
NoCaches == [n \in Names |-> {}]
InstIdle ==
    [pc |-> "idle", result |-> "none", afterReset |-> FALSE, pre |-> NoCaches]
ActIdle ==
    [pc |-> "idle", manifest |-> {}, oldManifest |-> JSONparse({}),
     todo |-> {}, request |-> {}, response |-> {}, branch |-> "none",
     result |-> "none", before |-> <<"other", "none">>,
     afterReset |-> FALSE, pre |-> NoCaches]
FetchIdle ==
    [pc |-> "idle", request |-> Empty, method |-> "GET", key |-> Empty,
     out |-> "none", resp |-> {}, net |-> "none", opened |-> FALSE,
     orphan |-> {}, raced |-> FALSE, changed |-> {}, pre |-> NoCaches]
HydIdle ==
    [pc |-> "idle", data |-> "none", currentContent |-> {}, resources |-> {},
     net |-> FALSE, result |-> "none", again |-> FALSE, pre |-> NoCaches]

\* lines 158-160 and 215-216: the Cache object a fetch got from caches.open
\* outlives caches.delete(CACHE_NAME): it keeps the entries it had, and
\* CacheStorage no longer shows what is put into it
Orphaned(t) ==
    IF t.pc \in {"cf_match", "cf_fetch", "of_c_match"} /\ t.orphan = {}
    THEN [t EXCEPT !.orphan = {caches[CACHE_NAME]}] ELSE t

\* the entries of the Cache object the fetch holds
Handle(t) ==
    IF t.orphan = {} THEN caches[CACHE_NAME] ELSE CHOOSE c \in t.orphan : TRUE

Settled(t) == t.pc \in {"idle", "done"}
Retire(t, idle) == IF t.pc = "done" THEN idle ELSE t

\* no handler is running and no store is outstanding
Quiescent ==
    /\ Settled(inst) /\ Settled(act) /\ Settled(ftch) /\ Settled(hyd)
    /\ puts = {}

\* a task that is "done" belongs to the event dispatched last: the event
\* before the one being dispatched, and how it ended
Before ==
    IF inst.pc = "done" THEN <<"install", inst.result>>
    ELSE IF act.pc = "done" THEN <<"activate", act.result>>
    ELSE <<"other", "none">>

\* the event dispatched last was an activation that failed and reset, or the
\* install that followed one
AfterReset ==
    \/ act.pc = "done" /\ act.result = "reset"
    \/ inst.pc = "done" /\ inst.afterReset

NoHost == [skipWaiting |-> FALSE, claimed |-> FALSE]

\* the host dispatches one more event; finished tasks are forgotten
Dispatch ==
    /\ nEvents < MaxEvents
    /\ nEvents' = nEvents + 1
    /\ UNCHANGED activated

\* ------------------------------------------------------------------ install
\* lines 65-73
InstallStart ==
    /\ Settled(inst)
    /\ Dispatch
    /\ inst' = [InstIdle EXCEPT !.pc = "open", !.pre = caches,
                  !.afterReset = (act.pc = "done" /\ act.result = "reset")]
    /\ host' = [NoHost EXCEPT !.skipWaiting = TRUE]
    /\ act' = Retire(act, ActIdle)
    /\ ftch' = Retire(ftch, FetchIdle)
    /\ hyd' = Retire(hyd, HydIdle)
    /\ UNCHANGED <<caches, puts>>

\* line 68: caches.open(TEMP), which may be made to fail
InstallOpen ==
    /\ inst.pc = "open"
    /\ \/ inst' = [inst EXCEPT !.pc = "addAll"]
       \/ inst' = [inst EXCEPT !.pc = "done", !.result = "failed"]
    /\ UNCHANGED <<caches, act, ftch, hyd, puts, host, activated, nEvents>>

\* what cache.addAll(list) leaves in cache c when the fetches end as o says:
\* every response is stored, or (one fetch failed or was not ok) none is
AddAll(c, list, o) ==
    LET F[i \in 0..Len(list)] ==
            IF i = 0 THEN c
            ELSE CachePut(F[i - 1], list[i], NetResponse(list[i], o[i]))
    IN  IF \A i \in 1..Len(list) : o[i] = "ok" THEN F[Len(list)] ELSE c

AddAllOutcomes(list) ==
    {o \in [1..Len(list) -> {"ok", "bad", "fail"}] :
        \A i \in 1..Len(list) : o[i] \in NetOutcomes(list[i])}

CoreRequests == [i \in 1..Len(CORE) |-> Request(CORE[i])]

\* an install that takes an answer of any status for a staged resource
InstallAddAllIgnoresStatus ==
    /\ inst.pc = "addAll"
    /\ \E o \in AddAllOutcomes(CoreRequests) :
         /\ caches' = [caches EXCEPT ![TEMP] = AddAll(@, CoreRequests, o)]
         /\ inst' = [inst EXCEPT !.pc = "done",
                       !.result = IF \A i \in 1..Len(CORE) : o[i] # "fail"
                                  THEN "ok" ELSE "failed"]
    /\ UNCHANGED <<act, ftch, hyd, puts, host, activated, nEvents>>

\* an install that stores the Core List in the content namespace as well
InstallAddAllPromotes ==
    /\ inst.pc = "addAll"
    /\ \E o \in AddAllOutcomes(CoreRequests) :
         /\ caches' = [caches EXCEPT ![TEMP] = AddAll(@, CoreRequests, o),
                         ![CACHE_NAME] = AddAll(@, CoreRequests, o)]
         /\ inst' = [inst EXCEPT !.pc = "done",
                       !.result = IF \A i \in 1..Len(CORE) : o[i] = "ok"
                                  THEN "ok" ELSE "failed"]
    /\ UNCHANGED <<act, ftch, hyd, puts, host, activated, nEvents>>

\* lines 69-70: cache.addAll of the Core List, fetched with cache: 'reload'
InstallAddAll ==
    /\ inst.pc = "addAll"
    /\ \E o \in AddAllOutcomes(CoreRequests) :
         /\ caches' = [caches EXCEPT ![TEMP] = AddAll(@, CoreRequests, o)]
         /\ inst' = [inst EXCEPT !.pc = "done",
                       !.result = IF \A i \in 1..Len(CORE) : o[i] = "ok"
                                  THEN "ok" ELSE "failed"]
    /\ UNCHANGED <<act, ftch, hyd, puts, host, activated, nEvents>>

\* an install whose promise fulfils however the staging went
InstallSignalSwallows ==
    IF inst.pc \in {"open", "addAll"} THEN "pending"
    ELSE IF inst.pc = "idle" THEN "none" ELSE "fulfilled"

\* lines 67-72: the promise install hands to event.waitUntil.  It is the
\* promise of caches.open(TEMP) chained with cache.addAll: it rejects when
\* either does.
InstallSignal ==
    IF inst.pc \in {"open", "addAll"} THEN "pending"
    ELSE IF inst.pc = "idle" THEN "none"
    ELSE IF inst.result = "ok" THEN "fulfilled" ELSE "rejected"

\* ----------------------------------------------------------------- activate
\* lines 77-133
ActivateStart ==
    /\ Settled(act)
    /\ Dispatch
    /\ act' = [ActIdle EXCEPT !.pc = "open", !.before = Before,
                 !.afterReset = AfterReset, !.pre = caches]
    /\ inst' = Retire(inst, InstIdle)
    /\ ftch' = Retire(ftch, FetchIdle)
    /\ hyd' = Retire(hyd, HydIdle)
    /\ host' = NoHost
    /\ UNCHANGED <<caches, puts>>

\* lines 80-82: caches.open of the three namespaces, and line 87: of the
\* content namespace again.  Opening changes nothing that an operation can
\* observe, so the three opens of lines 80-82 are one step.
ActOpen ==
    /\ act.pc \in {"open", "f_open_content"}
    /\ act' = [act EXCEPT !.pc = IF act.pc = "open" THEN "match_manifest"
                                  ELSE "temp_keys"]
    /\ UNCHANGED <<caches, inst, ftch, hyd, puts, host, activated, nEvents>>

\* an activation that reads an absent record as the record of an empty
\* manifest
ActMatchManifestAlwaysUpgrade ==
    /\ act.pc = "match_manifest"
    /\ LET manifest == CacheMatch(caches[MANIFEST], ManifestRequest)
       IN  act' = [act EXCEPT
                     !.manifest = IF manifest = {}
                                  THEN {Resp(JSONstringify(JSONparse({})), TRUE)}
                                  ELSE manifest,
                     !.branch = "upgrade",
                     !.pc = "u_json"]
    /\ UNCHANGED <<caches, inst, ftch, hyd, puts, host, activated, nEvents>>

\* lines 83-85: read the persisted record and choose the branch
ActMatchManifest ==
    /\ act.pc = "match_manifest"
    /\ LET manifest == CacheMatch(caches[MANIFEST], ManifestRequest)
       IN  act' = [act EXCEPT !.manifest = manifest,
                     !.branch = IF manifest = {} THEN "fresh" ELSE "upgrade",
                     !.pc = IF manifest = {} THEN "f_delete_content" ELSE "u_json"]
    /\ UNCHANGED <<caches, inst, ftch, hyd, puts, host, activated, nEvents>>

\* the fresh-install branch without its caches.delete(CACHE_NAME)
ActFreshDeleteSkipped ==
    /\ act.pc = "f_delete_content"
    /\ act' = [act EXCEPT !.pc = "f_open_content"]
    /\ UNCHANGED <<caches, inst, ftch, hyd, puts, host, activated, nEvents>>

\* line 86: the fresh-install branch clears the content namespace.  A fetch
\* that holds the namespace's Cache object keeps it, and the puts started on
\* it are never seen.
ActFreshDelete ==
    /\ act.pc = "f_delete_content"
    /\ caches' = [caches EXCEPT ![CACHE_NAME] = {}]
    /\ act' = [act EXCEPT !.pc = "f_open_content"]
    /\ ftch' = Orphaned(ftch)
    /\ puts' = {}
    /\ UNCHANGED <<inst, hyd, host, activated, nEvents>>

\* an upgrade that persists the current manifest as soon as it has read the
\* old one, before it evicts
ActJsonPersistsFirst ==
    /\ act.pc = "u_json"
    /\ act' = [act EXCEPT
                 !.oldManifest = JSONparse((CHOOSE r \in act.manifest : TRUE).data),
                 !.pc = "u_content_keys"]
    /\ caches' = [caches EXCEPT ![MANIFEST] = ManifestRecord(RESOURCES)]
    /\ activated' = ManifestRecord(RESOURCES)
    /\ UNCHANGED <<inst, ftch, hyd, puts, host, nEvents>>

\* line 125: control passes to the catch block, which reads none of the
\* handler's variables
Caught(t) ==
    [t EXCEPT !.pc = "c_delete_content", !.manifest = {},
       !.oldManifest = JSONparse({}), !.todo = {}, !.request = {},
       !.response = {}]

\* a parse of the record that throws at a key with no fingerprint
ActJsonRejectsMalformed ==
    /\ act.pc = "u_json"
    /\ LET oldManifest == JSONparse((CHOOSE r \in act.manifest : TRUE).data)
       IN  act' = IF \E k \in DOMAIN oldManifest : Falsy(oldManifest[k])
                  THEN Caught(act)
                  ELSE [act EXCEPT !.oldManifest = oldManifest,
                          !.pc = "u_content_keys"]
    /\ UNCHANGED <<caches, inst, ftch, hyd, puts, host, activated, nEvents>>

\* line 99: manifest.json()
ActJson ==
    /\ act.pc = "u_json"
    /\ act' = [act EXCEPT
                 !.oldManifest = JSONparse((CHOOSE r \in act.manifest : TRUE).data),
                 !.pc = "u_content_keys"]
    /\ UNCHANGED <<caches, inst, ftch, hyd, puts, host, activated, nEvents>>

\* lines 101-109: contentCache.keys() and the test of each key; the keys that
\* pass the test are left to delete, one await each
ActContentKeys ==
    /\ act.pc = "u_content_keys"
    /\ LET todo == {r \in CacheKeys(caches[CACHE_NAME]) : Evict(r, act.oldManifest)}
       IN  act' = [act EXCEPT !.todo = todo,
                     !.pc = IF todo = {} THEN "temp_keys" ELSE "u_delete"]
    /\ UNCHANGED <<caches, inst, ftch, hyd, puts, host, activated, nEvents>>

\* an eviction pass that ends after its first delete
ActEvictStopsEarly ==
    /\ act.pc = "u_delete"
    /\ \E r \in act.todo :
         /\ caches' = [caches EXCEPT ![CACHE_NAME] = CacheDelete(@, r)]
         /\ act' = [act EXCEPT !.todo = {}, !.pc = "temp_keys"]
    /\ UNCHANGED <<inst, ftch, hyd, puts, host, activated, nEvents>>

\* line 110: contentCache.delete(request)
ActEvict ==
    /\ act.pc = "u_delete"
    /\ \E r \in act.todo :
         /\ caches' = [caches EXCEPT ![CACHE_NAME] = CacheDelete(@, r)]
         /\ act' = [act EXCEPT !.todo = @ \ {r},
                      !.pc = IF act.todo = {r} THEN "temp_keys" ELSE "u_delete"]
    /\ UNCHANGED <<inst, ftch, hyd, puts, host, activated, nEvents>>

\* an overlay that copies a single staged entry
ActTempKeysFirstOnly ==
    /\ act.pc = "temp_keys"
    /\ LET keys == CacheKeys(caches[TEMP])
           todo == IF keys = {} THEN {} ELSE {CHOOSE r \in keys : TRUE}
       IN  act' = [act EXCEPT !.todo = todo,
                     !.pc = IF todo = {} THEN "delete_temp" ELSE "temp_match"]
    /\ UNCHANGED <<caches, inst, ftch, hyd, puts, host, activated, nEvents>>

\* lines 88 and 115: tempCache.keys()
ActTempKeys ==
    /\ act.pc = "temp_keys"
    /\ LET todo == CacheKeys(caches[TEMP])
       IN  act' = [act EXCEPT !.todo = todo,
                     !.pc = IF todo = {} THEN "delete_temp" ELSE "temp_match"]
    /\ UNCHANGED <<caches, inst, ftch, hyd, puts, host, activated, nEvents>>

\* lines 89 and 116: tempCache.match(request)
ActTempMatch ==
    /\ act.pc = "temp_match"
    /\ \E r \in act.todo :
         act' = [act EXCEPT !.request = {r},
                   !.response = CacheMatch(caches[TEMP], r),
                   !.pc = "content_put"]
    /\ UNCHANGED <<caches, inst, ftch, hyd, puts, host, activated, nEvents>>

\* an overlay that writes a staged response without its status
ActContentPutTruncates ==
    /\ act.pc = "content_put"
    /\ LET r == CHOOSE r \in act.request : TRUE
       IN  IF act.response = {}
           THEN /\ act' = Caught(act)
                /\ UNCHANGED caches
           ELSE /\ caches' = [caches EXCEPT ![CACHE_NAME] =
                                CachePut(@, r, Resp((CHOOSE x \in act.response : TRUE).data, FALSE))]
                /\ act' = [act EXCEPT !.todo = @ \ {r}, !.request = {},
                             !.response = {},
                             !.pc = IF act.todo = {r} THEN "delete_temp"
                                    ELSE "temp_match"]
    /\ UNCHANGED <<inst, ftch, hyd, puts, host, activated, nEvents>>

\* lines 90 and 117: contentCache.put(request, response); a put of undefined
\* throws
ActContentPut ==
    /\ act.pc = "content_put"
    /\ LET r == CHOOSE r \in act.request : TRUE
       IN  IF act.response = {}
           THEN /\ act' = Caught(act)
                /\ UNCHANGED caches
           ELSE /\ caches' = [caches EXCEPT ![CACHE_NAME] =
                                CachePut(@, r, CHOOSE x \in act.response : TRUE)]
                /\ act' = [act EXCEPT !.todo = @ \ {r}, !.request = {},
                             !.response = {},
                             !.pc = IF act.todo = {r} THEN "delete_temp"
                                    ELSE "temp_match"]
    /\ UNCHANGED <<inst, ftch, hyd, puts, host, activated, nEvents>>

\* a record of the application shell's keys only
NewRecordShell ==
    Resp(JSONstringify([k \in {CORE[i] : i \in 1..Len(CORE)} |-> RESOURCES[k]]),
         TRUE)

\* lines 94 and 121: new Response(JSON.stringify(RESOURCES))
NewRecord == Resp(JSONstringify(RESOURCES), TRUE)

\* an activation that persists the manifest in the step that discards the
\* staging namespace
ActDeleteTempPersists ==
    /\ act.pc = "delete_temp"
    /\ caches' = [caches EXCEPT ![TEMP] = {},
                    ![MANIFEST] = CachePut(@, ManifestRequest, NewRecord)]
    /\ act' = [act EXCEPT !.todo = {}, !.pc = "manifest_put"]
    /\ UNCHANGED <<inst, ftch, hyd, puts, host, activated, nEvents>>

\* an activation that keeps the staging namespace
ActDeleteTempSkipped ==
    /\ act.pc = "delete_temp"
    /\ act' = [act EXCEPT !.todo = {}, !.pc = "manifest_put"]
    /\ UNCHANGED <<caches, inst, ftch, hyd, puts, host, activated, nEvents>>

\* lines 92 and 119: caches.delete(TEMP)
ActDeleteTemp ==
    /\ act.pc = "delete_temp"
    /\ caches' = [caches EXCEPT ![TEMP] = {}]
    /\ act' = [act EXCEPT !.todo = {}, !.pc = "manifest_put"]
    /\ UNCHANGED <<inst, ftch, hyd, puts, host, activated, nEvents>>

\* an activation that ends without persisting the manifest
ActManifestPutSkipped ==
    /\ act.pc = "manifest_put"
    /\ act' = [act EXCEPT !.pc = "claim"]
    /\ UNCHANGED <<caches, inst, ftch, hyd, puts, host, activated, nEvents>>

\* lines 94 and 121: persist the current manifest.  Nothing after this step
\* can throw: the activation has succeeded, and RESOURCES drove it.
ActManifestPut ==
    /\ act.pc = "manifest_put"
    /\ caches' = [caches EXCEPT ![MANIFEST] =
                    CachePut(@, ManifestRequest, NewRecord)]
    /\ act' = [act EXCEPT !.pc = "claim"]
    /\ activated' = ManifestRecord(RESOURCES)
    /\ UNCHANGED <<inst, ftch, hyd, puts, host, nEvents>>

\* lines 96-97 and 123-124: self.clients.claim() and return
ActClaim ==
    /\ act.pc = "claim"
    /\ host' = [host EXCEPT !.claimed = TRUE]
    /\ act' = [act EXCEPT !.pc = "done", !.result = "ok"]
    /\ UNCHANGED <<caches, inst, ftch, hyd, puts, activated, nEvents>>

\* the awaited steps of the try block (lines 80-121)
Fallible ==
    {"open", "match_manifest",
     "f_delete_content", "f_open_content", "u_json", "u_content_keys",
     "u_delete", "temp_keys", "temp_match", "content_put", "delete_temp",
     "manifest_put"}

\* the step the handler is at throws, and has no effect
ActFail ==
    /\ act.pc \in Fallible
    /\ act' = Caught(act)
    /\ UNCHANGED <<caches, inst, ftch, hyd, puts, host, activated, nEvents>>

\* a catch block that leaves the manifest record in place
CatchDeletesKeepsRecord(pc) ==
    CASE pc = "c_delete_content" -> {CACHE_NAME}
      [] pc = "c_delete_temp" -> {TEMP}
      [] pc = "c_delete_manifest" -> {}

\* what one step of the catch block deletes
CatchDeletes(pc) ==
    CASE pc = "c_delete_content" -> {CACHE_NAME}
      [] pc = "c_delete_temp" -> {TEMP}
      [] pc = "c_delete_manifest" -> {MANIFEST}

\* lines 128-130: the catch block deletes the three namespaces
ActCatch ==
    /\ act.pc \in {"c_delete_content", "c_delete_temp", "c_delete_manifest"}
    /\ caches' = [n \in Names |->
                    IF n \in CatchDeletes(act.pc) THEN {} ELSE caches[n]]
    /\ act' = [act EXCEPT
                 !.pc = CASE act.pc = "c_delete_content" -> "c_delete_temp"
                          [] act.pc = "c_delete_temp" -> "c_delete_manifest"
                          [] act.pc = "c_delete_manifest" -> "done",
                 !.result = IF act.pc = "c_delete_manifest" THEN "reset" ELSE @]
    /\ ftch' = IF CACHE_NAME \in CatchDeletes(act.pc) THEN Orphaned(ftch) ELSE ftch
    /\ puts' = IF CACHE_NAME \in CatchDeletes(act.pc) THEN {} ELSE puts
    /\ UNCHANGED <<inst, hyd, host, activated, nEvents>>

\* an activate handler whose catch block throws the error again
ActivateSignalRethrows ==
    IF act.pc = "idle" THEN "none"
    ELSE IF act.pc = "done"
         THEN IF act.result = "ok" THEN "fulfilled" ELSE "rejected"
         ELSE "pending"

\* lines 78-132: the promise activate hands to event.waitUntil, that of the
\* async function.  The catch block swallows the error, so the promise
\* fulfils however the activation went.
ActivateSignal ==
    IF act.pc = "idle" THEN "none"
    ELSE IF act.pc = "done" THEN "fulfilled" ELSE "pending"


\* -------------------------------------------------------------------- fetch
\* the requests the host hands to the fetch handler
RequestURLs ==
    {Empty, Url("", "", Hash), Url("", Token, ""), Url("a.js", "", ""),
     Url("a.js", Token, ""), Url("gone.js", "", ""), Url("index.html", "", "")}
Methods == {"GET", "POST"}

\* the manifest keys whose fingerprint the old manifest gives otherwise
Changed(oldManifest) ==
    {k \in DOMAIN RESOURCES \cap DOMAIN oldManifest : RESOURCES[k] # oldManifest[k]}

\* the keys the activation just before this event found changed, if the
\* event before was an activation of the upgrade branch that succeeded
JustChanged ==
    IF act.pc = "done" /\ act.result = "ok" /\ act.branch = "upgrade"
    THEN Changed(act.oldManifest) ELSE {}

\* the test of lines 137-153 without the test of the method
InterceptsAnyMethod(m, key) == ~Falsy(Get(RESOURCES, key))

\* lines 137-153: the handler answers GETs of manifest keys only
Intercepts(m, key) == m = "GET" /\ ~Falsy(Get(RESOURCES, key))

\* lines 136-157: the synchronous part of the fetch handler.  A request that
\* is not intercepted is finished here, with no response of the worker.
FetchStart ==
    /\ Settled(ftch)
    /\ Dispatch
    /\ \E u \in RequestURLs, m \in Methods :
         LET key == FetchKey(u)
             t == [FetchIdle EXCEPT !.request = u, !.method = m, !.key = key,
                     !.raced = ~Settled(act),
                     !.changed = JustChanged, !.pre = caches]
         IN  ftch' =
               IF ~Intercepts(m, key) THEN [t EXCEPT !.pc = "done"]
               ELSE IF key = RootKey THEN [t EXCEPT !.pc = "of_fetch"]
               ELSE [t EXCEPT !.pc = "cf_open"]
    /\ inst' = Retire(inst, InstIdle)
    /\ act' = Retire(act, ActIdle)
    /\ hyd' = Retire(hyd, HydIdle)
    /\ host' = NoHost
    /\ UNCHANGED <<caches, puts>>

\* lines 158, 210 and 215: caches.open(CACHE_NAME)
FetchOpen ==
    /\ ftch.pc \in {"cf_open", "of_c_open"}
    /\ ftch' = [ftch EXCEPT !.opened = TRUE,
                  !.pc = IF ftch.pc = "cf_open" THEN "cf_match" ELSE "of_c_match"]
    /\ UNCHANGED <<caches, inst, act, hyd, puts, host, activated, nEvents>>

\* a cache-first policy that goes to the network whatever the cache holds
FetchCfMatchRevalidates ==
    /\ ftch.pc = "cf_match"
    /\ ftch' = [ftch EXCEPT !.pc = "cf_fetch"]
    /\ UNCHANGED <<caches, inst, act, hyd, puts, host, activated, nEvents>>

\* a cache-first policy that stores again the entry it has found
FetchCfMatchRestores ==
    /\ ftch.pc = "cf_match"
    /\ LET response == CacheMatch(Handle(ftch), ftch.request)
       IN  IF response # {}
           THEN /\ ftch' = [ftch EXCEPT !.pc = "done", !.out = "response",
                               !.resp = response, !.orphan = {}]
                /\ puts' = puts \cup {[req |-> ftch.request,
                                        resp |-> CHOOSE r \in response : TRUE]}
           ELSE /\ ftch' = [ftch EXCEPT !.pc = "cf_fetch"]
                /\ UNCHANGED puts
    /\ UNCHANGED <<caches, inst, act, hyd, host, activated, nEvents>>

\* lines 160-163: cache.match(event.request); a hit is the response
FetchCfMatch ==
    /\ ftch.pc = "cf_match"
    /\ LET response == CacheMatch(Handle(ftch), ftch.request)
       IN  ftch' = IF response # {}
                   THEN [ftch EXCEPT !.pc = "done", !.out = "response",
                           !.resp = response, !.orphan = {}]
                   ELSE [ftch EXCEPT !.pc = "cf_fetch"]
    /\ UNCHANGED <<caches, inst, act, hyd, puts, host, activated, nEvents>>

\* a refill that stores whatever the network answers
FetchCfFetchStoresAny ==
    /\ ftch.pc = "cf_fetch"
    /\ \E o \in NetOutcomes(ftch.request) :
         LET response == NetResponse(ftch.request, o)
         IN  IF o = "fail"
             THEN /\ ftch' = [ftch EXCEPT !.pc = "done", !.out = "error",
                                !.net = o]
                  /\ UNCHANGED puts
             ELSE /\ ftch' = [ftch EXCEPT !.pc = "done", !.out = "response",
                                !.resp = {response}, !.net = o]
                  /\ puts' = puts \cup {[req |-> ftch.request, resp |-> response]}
    /\ UNCHANGED <<caches, inst, act, hyd, host, activated, nEvents>>

\* a miss whose network error is answered with an error page of the worker
FetchCfFetchSwallows ==
    /\ ftch.pc = "cf_fetch"
    /\ \E o \in NetOutcomes(ftch.request) :
         LET response == NetResponse(ftch.request, o)
         IN  /\ ftch' = [ftch EXCEPT !.pc = "done", !.out = "response",
                           !.resp = {response}, !.net = o]
             /\ puts' = IF response.ok
                        THEN puts \cup {[req |-> ftch.request, resp |-> response]}
                        ELSE puts
    /\ UNCHANGED <<caches, inst, act, hyd, host, activated, nEvents>>

\* lines 163-168: fetch(event.request); an ok response is put (not awaited)
\* and every response is returned; a failed fetch rejects the response
FetchCfFetch ==
    /\ ftch.pc = "cf_fetch"
    /\ \E o \in NetOutcomes(ftch.request) :
         LET response == NetResponse(ftch.request, o)
         IN  IF o = "fail"
             THEN /\ ftch' = [ftch EXCEPT !.pc = "done", !.out = "error",
                                !.net = o, !.orphan = {}]
                  /\ UNCHANGED puts
             ELSE /\ ftch' = [ftch EXCEPT !.pc = "done", !.out = "response",
                                !.resp = {response}, !.net = o, !.orphan = {}]
                  /\ puts' = IF response.ok /\ ftch.orphan = {}
                             THEN puts \cup {[req |-> ftch.request, resp |-> response]}
                             ELSE puts
    /\ UNCHANGED <<caches, inst, act, hyd, host, activated, nEvents>>

\* lines 209 and 214: onlineFirst's fetch(event.request)
FetchOfFetch ==
    /\ ftch.pc = "of_fetch"
    /\ \E o \in NetOutcomes(ftch.request) :
         ftch' = IF o = "fail"
                 THEN [ftch EXCEPT !.pc = "of_c_open", !.net = o]
                 ELSE [ftch EXCEPT !.pc = "of_open", !.net = o,
                         !.resp = {NetResponse(ftch.request, o)}]
    /\ UNCHANGED <<caches, inst, act, hyd, puts, host, activated, nEvents>>

\* an online-first policy that returns the network's response and stores
\* nothing
FetchOfPutSkipped ==
    /\ ftch.pc = "of_open"
    /\ ftch' = [ftch EXCEPT !.pc = "done", !.out = "response", !.opened = TRUE]
    /\ UNCHANGED <<caches, inst, act, hyd, puts, host, activated, nEvents>>

\* an online-first policy that stores only the responses with an ok status
FetchOfPutOkOnly ==
    /\ ftch.pc = "of_open"
    /\ LET response == CHOOSE r \in ftch.resp : TRUE
       IN  puts' = IF response.ok
                   THEN puts \cup {[req |-> ftch.request, resp |-> response]}
                   ELSE puts
    /\ ftch' = [ftch EXCEPT !.pc = "done", !.out = "response", !.opened = TRUE]
    /\ UNCHANGED <<caches, inst, act, hyd, host, activated, nEvents>>

\* lines 210-213: open the content namespace, put the network response (not
\* awaited) and return it
FetchOfPut ==
    /\ ftch.pc = "of_open"
    /\ puts' = puts \cup {[req |-> ftch.request,
                           resp |-> CHOOSE r \in ftch.resp : TRUE]}
    /\ ftch' = [ftch EXCEPT !.pc = "done", !.out = "response", !.opened = TRUE]
    /\ UNCHANGED <<caches, inst, act, hyd, host, activated, nEvents>>

\* an online-first policy that rethrows the error whatever the cache holds
FetchOfCatchRethrows ==
    /\ ftch.pc = "of_c_match"
    /\ ftch' = [ftch EXCEPT !.pc = "done", !.out = "error"]
    /\ UNCHANGED <<caches, inst, act, hyd, puts, host, activated, nEvents>>

\* lines 216-221: after a failed fetch the cached entry, or the error
FetchOfCatchMatch ==
    /\ ftch.pc = "of_c_match"
    /\ LET response == CacheMatch(Handle(ftch), ftch.request)
       IN  ftch' = IF response # {}
                   THEN [ftch EXCEPT !.pc = "done", !.out = "response",
                           !.resp = response, !.orphan = {}]
                   ELSE [ftch EXCEPT !.pc = "done", !.out = "error",
                           !.orphan = {}]
    /\ UNCHANGED <<caches, inst, act, hyd, puts, host, activated, nEvents>>

\* a store that reaches the staging namespace
PutLandStaging ==
    /\ \E p \in puts :
         /\ puts' = puts \ {p}
         /\ \/ caches' = [caches EXCEPT ![TEMP] = CachePut(@, p.req, p.resp)]
            \/ UNCHANGED caches
    /\ UNCHANGED <<inst, act, ftch, hyd, host, activated, nEvents>>

\* lines 165 and 211: a put that was started reaches the content namespace,
\* or fails; nothing waits for it
PutLand ==
    /\ \E p \in puts :
         /\ puts' = puts \ {p}
         /\ \/ caches' = [caches EXCEPT ![CACHE_NAME] = CachePut(@, p.req, p.resp)]
            \/ UNCHANGED caches
    /\ UNCHANGED <<inst, act, ftch, hyd, host, activated, nEvents>>

\* ------------------------------------------------------------------ message
Messages == {"skipWaiting", "downloadOffline", "other"}

\* lines 173-184: the message handler hands the host no promise: it calls
\* neither event.waitUntil nor anything else of the event, and the promise
\* of downloadOffline() is dropped
MessageSignal == "none"

\* the event dispatched last was a downloadOffline that stored what it asked
AfterHydration ==
    hyd.pc = "done" /\ hyd.data = "downloadOffline" /\ hyd.result = "ok"

\* a message handler that starts the hydrator for every message but
\* skipWaiting
MessageStartAnyHydrates ==
    /\ Settled(hyd)
    /\ Dispatch
    /\ \E d \in Messages :
         /\ hyd' = [HydIdle EXCEPT !.data = d, !.pre = caches,
                      !.again = AfterHydration,
                      !.pc = IF d # "skipWaiting" THEN "open" ELSE "done"]
         /\ host' = IF d = "skipWaiting" THEN [NoHost EXCEPT !.skipWaiting = TRUE]
                    ELSE NoHost
    /\ inst' = Retire(inst, InstIdle)
    /\ act' = Retire(act, ActIdle)
    /\ ftch' = Retire(ftch, FetchIdle)
    /\ UNCHANGED <<caches, puts>>

\* lines 173-184
MessageStart ==
    /\ Settled(hyd)
    /\ Dispatch
    /\ \E d \in Messages :
         /\ hyd' = [HydIdle EXCEPT !.data = d, !.pre = caches,
                      !.again = AfterHydration,
                      !.pc = IF d = "downloadOffline" THEN "open" ELSE "done"]
         /\ host' = IF d = "skipWaiting" THEN [NoHost EXCEPT !.skipWaiting = TRUE]
                    ELSE NoHost
    /\ inst' = Retire(inst, InstIdle)
    /\ act' = Retire(act, ActIdle)
    /\ ftch' = Retire(ftch, FetchIdle)
    /\ UNCHANGED <<caches, puts>>

\* line 189
HydOpen ==
    /\ hyd.pc = "open"
    /\ hyd' = [hyd EXCEPT !.pc = "keys"]
    /\ UNCHANGED <<caches, inst, act, ftch, puts, host, activated, nEvents>>

\* the missing keys, the root key left out
MissingNoRoot(currentContent) ==
    {k \in DOMAIN RESOURCES \ {"/"} : Str(k, "", "") \notin currentContent}

\* every manifest key, whatever the content namespace holds
MissingAll(currentContent) == DOMAIN RESOURCES

\* lines 198-202: the manifest keys that currentContent lacks
Missing(currentContent) ==
    {k \in DOMAIN RESOURCES : Str(k, "", "") \notin currentContent}

\* lines 190-202: the keys of the content namespace, then the missing ones
HydKeys ==
    /\ hyd.pc = "keys"
    /\ LET currentContent == {KeyOf(r) : r \in CacheKeys(caches[CACHE_NAME])}
       IN  hyd' = [hyd EXCEPT !.currentContent = currentContent,
                     !.resources = Missing(currentContent),
                     !.pc = "addAll"]
    /\ UNCHANGED <<caches, inst, act, ftch, puts, host, activated, nEvents>>

\* a set of manifest keys as the list of requests addAll is given
RequestList(S) ==
    LET F[T \in SUBSET S] ==
            IF T = {} THEN <<>>
            ELSE LET k == CHOOSE k \in T : TRUE
                 IN  <<Request(k)>> \o F[T \ {k}]
    IN  F[S]

\* line 203: contentCache.addAll(resources)
HydAddAll ==
    /\ hyd.pc = "addAll"
    /\ LET list == RequestList(hyd.resources)
       IN  \E o \in AddAllOutcomes(list) :
             /\ caches' = [caches EXCEPT ![CACHE_NAME] = AddAll(@, list, o)]
             /\ hyd' = [hyd EXCEPT !.pc = "done", !.net = (list # <<>>),
                          !.result = IF \A i \in 1..Len(list) : o[i] = "ok"
                                     THEN "ok" ELSE "failed"]
    /\ UNCHANGED <<inst, act, ftch, puts, host, activated, nEvents>>

\* ------------------------------------------------------ the initial states
\* The worker starts on what an earlier version of the site left behind: no
\* record or the record of an old manifest, a content namespace filled under
\* that manifest, and an empty staging namespace (every activation ends by
\* deleting it).  In an old manifest the root and index.html are the same
\* document (lines 18-19), main.dart.js is another build, a.js is the same,
\* another or not there, and gone.js is a resource the site no longer has.
OldManifests ==
    {("/" :> r) @@ ("index.html" :> r) @@ ("main.dart.js" :> "h1")
       @@ ("gone.js" :> "h1") @@ a :
       r \in {"h1", "h2"},
       a \in {("a.js" :> "h1"), ("a.js" :> "h2"), JSONparse({})}}

InitURLs ==
    {Empty, Url("index.html", "", ""), Url("a.js", "", ""),
     Url("gone.js", "", "")}

\* an entry holds the data its path had under the old manifest
OldData(M, u) ==
    LET fp == Get(M, KeyOf(Str(u.path, "", "")))
    IN  IF Falsy(fp) THEN "h1" ELSE fp
InitContents(M) ==
    {{[req |-> u, resp |-> Resp(OldData(M, u), TRUE)] : u \in U} :
        U \in {V \in SUBSET InitURLs : Cardinality(V) <= MaxInitContent}}

Init ==
    /\ \E M \in OldManifests, persisted \in BOOLEAN :
         \E content \in InitContents(M) :
           /\ caches = (MANIFEST :> IF persisted THEN ManifestRecord(M) ELSE {})
                      @@ (TEMP :> {}) @@ (CACHE_NAME :> content)
           /\ activated = IF persisted THEN ManifestRecord(M) ELSE {}
    /\ inst = InstIdle
    /\ act = ActIdle
    /\ ftch = FetchIdle
    /\ hyd = HydIdle
    /\ puts = {}
    /\ host = NoHost
    /\ nEvents = 0

\* the steps of the handlers that are running
InstallSteps == InstallOpen \/ InstallAddAll
ActivateSteps ==
    \/ ActOpen \/ ActMatchManifest \/ ActFreshDelete \/ ActJson
    \/ ActContentKeys \/ ActEvict \/ ActTempKeys \/ ActTempMatch
    \/ ActContentPut \/ ActDeleteTemp \/ ActManifestPut \/ ActClaim
    \/ ActFail \/ ActCatch
FetchSteps ==
    \/ FetchOpen \/ FetchCfMatch \/ FetchCfFetch \/ FetchOfFetch
    \/ FetchOfPut \/ FetchOfCatchMatch \/ PutLand
HydratorSteps == HydOpen \/ HydKeys \/ HydAddAll
Step == InstallSteps \/ ActivateSteps \/ FetchSteps \/ HydratorSteps

\* the host dispatches an event once the work of the one before has ended
Next ==
    \/ Quiescent /\ InstallStart
    \/ Quiescent /\ ActivateStart
    \/ Quiescent /\ FetchStart
    \/ Quiescent /\ MessageStart
    \/ Step

Spec == Init /\ [][Next]_vars

\* --------------------------------------------- an activation that is stopped
\* lines 79-124: the host stops the worker while the activate handler is at
\* an await of its try block; the catch block does not run, and the
\* namespaces stay as the steps before left them
ActStop ==
    /\ act.pc \in Fallible
    /\ act' = [Caught(act) EXCEPT !.pc = "done", !.result = "stopped"]
    /\ UNCHANGED <<caches, inst, ftch, hyd, puts, host, activated, nEvents>>

NextStop == Next \/ ActStop

SpecStop == Init /\ [][NextStop]_vars

\* ------------------------------------------------- fetches during activation
\* what an install that succeeded leaves in the staging namespace
StagedCore ==
    {[req |-> CoreRequests[i], resp |-> NetResponse(CoreRequests[i], "ok")] :
        i \in 1..Len(CORE)}

\* the worker after an install that succeeded, on what an earlier version
\* left behind
InitRace ==
    /\ \E M \in OldManifests, persisted \in BOOLEAN :
         \E content \in InitContents(M) :
           /\ caches = (MANIFEST :> IF persisted THEN ManifestRecord(M) ELSE {})
                      @@ (TEMP :> StagedCore) @@ (CACHE_NAME :> content)
           /\ activated = IF persisted THEN ManifestRecord(M) ELSE {}
    /\ inst = InstIdle
    /\ act = ActIdle
    /\ ftch = FetchIdle
    /\ hyd = HydIdle
    /\ puts = {}
    /\ host = NoHost
    /\ nEvents = 0

\* section 5 of the design: the host hands a fetch event to the worker
\* whenever one arrives, also while the activation is at an await
NextRace ==
    \/ nEvents < MaxRaceEvents /\ Quiescent /\ ActivateStart
    \/ nEvents < MaxRaceEvents /\ FetchStart
    \/ ActivateSteps
    \/ FetchSteps

SpecRace == InitRace /\ [][NextRace]_vars

\* ------------------------------------------- malformed manifest entries
\* line 99: records an earlier version persisted in which a key has an empty
\* fingerprint or none; "gone.js" is a key the current manifest lacks
MalformedManifests ==
    {("/" :> "h2") @@ ("index.html" :> i) @@ ("main.dart.js" :> "h1")
       @@ ("gone.js" :> "") @@ a :
       i \in {"", "h2"},
       a \in {("a.js" :> ""), JSONparse({})}}

InitMalformed ==
    /\ \E M \in MalformedManifests, persisted \in BOOLEAN :
         \E content \in InitContents(M) :
           /\ caches = (MANIFEST :> IF persisted THEN ManifestRecord(M) ELSE {})
                      @@ (TEMP :> {}) @@ (CACHE_NAME :> content)
           /\ activated = IF persisted THEN ManifestRecord(M) ELSE {}
    /\ inst = InstIdle
    /\ act = ActIdle
    /\ ftch = FetchIdle
    /\ hyd = HydIdle
    /\ puts = {}
    /\ host = NoHost
    /\ nEvents = 0

\* the install, activate and fetch listeners where no operation on a
\* namespace fails during the activation: the catch block of lines 125-131
\* runs only when a step of the try block throws
NextMalformed ==
    \/ Quiescent /\ InstallStart
    \/ Quiescent /\ ActivateStart
    \/ Quiescent /\ FetchStart
    \/ InstallSteps
    \/ ActOpen \/ ActMatchManifest \/ ActFreshDelete \/ ActJson
    \/ ActContentKeys \/ ActEvict \/ ActTempKeys \/ ActTempMatch
    \/ ActContentPut \/ ActDeleteTemp \/ ActManifestPut \/ ActClaim
    \/ FetchSteps

SpecMalformed == InitMalformed /\ [][NextMalformed]_vars


\* ------------------------------------------------------------------- claims
\* the resource path a request names: the path of its URL, the empty path
\* read as the root key
PathKey(u) == IF u.path = "" THEN "/" ELSE u.path

content == caches[CACHE_NAME]
ActFinished(result) == act.pc = "done" /\ act.result = result

\* C1: when an activation in which a step of the try block failed has
\* finished, the staging, content and manifest-record namespaces are empty.
C1_FatalActivationReset ==
    ActFinished("reset") => \A n \in Names : caches[n] = {}

\* an activation of the upgrade branch failed after an install had staged the
\* shell, with content and a record in place when it started
C1_Witness ==
    /\ ActFinished("reset")
    /\ act.branch = "upgrade"
    /\ \A n \in Names : act.pre[n] # {}

C3_Original ==
    (ActFinished("ok") /\ act.branch = "upgrade") =>
        \A k \in Changed(act.oldManifest) :
            \A e \in content : PathKey(e.req) # k

\* C3, amended: after an upgrade that succeeded, an entry the content
\* namespace holds for a key whose fingerprint changed is the staged entry of
\* that key; and the entry a fetch right after the activation stores for such
\* a key is the network's response, with the data of the new fingerprint when
\* its status is ok.
C3_EvictionCorrectness ==
    /\ (ActFinished("ok") /\ act.branch = "upgrade") =>
         \A k \in Changed(act.oldManifest) :
            \A e \in content : PathKey(e.req) = k => e \in act.pre[TEMP]
    /\ (ftch.pc = "done" /\ puts = {} /\ PathKey(ftch.request) \in ftch.changed
        /\ content # ftch.pre[CACHE_NAME]) =>
         /\ ftch.net \in {"ok", "bad"}
         /\ CacheMatch(content, ftch.request) = ftch.resp
         /\ \A r \in ftch.resp :
               r.ok => r.data = RESOURCES[PathKey(ftch.request)]

\* the upgrade left the staged entry of a changed key in content, and a
\* fetch right after it has stored the new data of another changed key
C3_Witness ==
    /\ ftch.pc = "done" /\ puts = {}
    /\ PathKey(ftch.request) \in ftch.changed
    /\ content # ftch.pre[CACHE_NAME]
    /\ \E r \in ftch.resp : r.ok
    /\ \E e \in ftch.pre[CACHE_NAME] : PathKey(e.req) \in ftch.changed

\* C4: an activation that succeeds right after another activation leaves the
\* content namespace as that one left it.
C4_Idempotence ==
    (ActFinished("ok") /\ act.before[1] = "activate") =>
        content = act.pre[CACHE_NAME]

\* the second of two successful activations, on a content namespace that the
\* first one left with entries
C4_Witness ==
    /\ ActFinished("ok")
    /\ act.before = <<"activate", "ok">>
    /\ content # {}

\* C5: with no record persisted, after an install that succeeded and the
\* activation that follows it, the keys of the content namespace are the
\* requests of the Core List, the staged ones, and the current manifest is
\* persisted.
C5_FreshInstallCompleteness ==
    (ActFinished("ok") /\ act.pre[MANIFEST] = {}
     /\ act.before = <<"install", "ok">>) =>
        /\ CacheKeys(content) = {CoreRequests[i] : i \in 1..Len(CORE)}
        /\ CacheKeys(content) = CacheKeys(act.pre[TEMP])
        /\ caches[MANIFEST] = ManifestRecord(RESOURCES)

\* a fresh install on a content namespace that held other entries
C5_Witness ==
    /\ ActFinished("ok") /\ act.pre[MANIFEST] = {}
    /\ act.before = <<"install", "ok">>
    /\ \E e \in act.pre[CACHE_NAME] : e.req \notin CacheKeys(act.pre[TEMP])

\* C6: the manifest-record namespace is empty or holds the record of the
\* manifest of the most recent activation that succeeded.
C6_RecordIsLastActivated ==
    caches[MANIFEST] = {} \/ caches[MANIFEST] = activated

\* an activation has replaced the record of an old manifest, and a fetch has
\* been served since
C6_Witness ==
    /\ activated = ManifestRecord(RESOURCES)
    /\ caches[MANIFEST] = activated
    /\ ftch.pc = "done" /\ ftch.out = "response"
    /\ ftch.pre[MANIFEST] = activated

\* C7: a GET of the root key whose network fetch fails, with an entry for
\* the request in the content namespace, is answered with that entry, and
\* the content namespace is left as it was.
C7_RootFallback ==
    (ftch.pc = "done" /\ ftch.method = "GET" /\ PathKey(ftch.request) = "/"
     /\ ftch.net = "fail"
     /\ CacheMatch(ftch.pre[CACHE_NAME], ftch.request) # {}) =>
        /\ ftch.out = "response"
        /\ ftch.resp = CacheMatch(ftch.pre[CACHE_NAME], ftch.request)
        /\ content = ftch.pre[CACHE_NAME]
        /\ puts = {}

\* a navigation to a fragment of the root document was answered from the
\* root entry after the network failed
C7_Witness ==
    /\ ftch.pc = "done" /\ ftch.request = Url("", "", Hash)
    /\ ftch.net = "fail" /\ ftch.out = "response"
    /\ \E e \in ftch.pre[CACHE_NAME] : e.req = Empty /\ e.resp \in ftch.resp

\* C8: after downloadOffline has run with every fetch answered ok, every key
\* of the current manifest is the key of an entry of the content namespace.
C8_HydrationSuperset ==
    (hyd.pc = "done" /\ hyd.data = "downloadOffline" /\ hyd.result = "ok") =>
        \A k \in DOMAIN RESOURCES :
            Str(k, "", "") \in {KeyOf(r) : r \in CacheKeys(content)}

\* the hydrator fetched the root and other keys into a content namespace
\* that held an entry already
C8_Witness ==
    /\ hyd.pc = "done" /\ hyd.result = "ok" /\ hyd.net
    /\ "/" \in hyd.resources /\ Cardinality(hyd.resources) < Cardinality(DOMAIN RESOURCES)

C10_CacheFirstHit ==
    (ftch.pc = "done" /\ ftch.method = "GET"
     /\ PathKey(ftch.request) \in DOMAIN RESOURCES \ {"/"}
     /\ CacheMatch(ftch.pre[CACHE_NAME], ftch.request) # {}) =>
        /\ ftch.out = "response"
        /\ ftch.resp = CacheMatch(ftch.pre[CACHE_NAME], ftch.request)
        /\ ftch.net = "none"
        /\ content = ftch.pre[CACHE_NAME]
        /\ puts = {}

\* a hit on an entry that carries the data of an old fingerprint
C10_Witness ==
    /\ ftch.pc = "done" /\ ftch.out = "response" /\ ftch.net = "none"
    /\ PathKey(ftch.request) \in DOMAIN RESOURCES \ {"/"}
    /\ \E r \in ftch.resp : r.data # RESOURCES[PathKey(ftch.request)]

\* a GET of a manifest key other than the root has ended, and the content
\* namespace held no entry for the request when it was dispatched
CfMiss ==
    /\ ftch.pc = "done" /\ ftch.method = "GET"
    /\ PathKey(ftch.request) \in DOMAIN RESOURCES \ {"/"}
    /\ CacheMatch(ftch.pre[CACHE_NAME], ftch.request) = {}

\* the store of the response the fetch handler returned
Copy == [req |-> ftch.request, resp |-> NetResponse(ftch.request, ftch.net)]

\* C11: a cache-first miss that the network answers returns the network's
\* response, whatever its status; a store of the response is started if and
\* only if its status is ok; and whether that store lands or fails, the
\* response returned stays the same and the content namespace is as it was
\* or holds the copy.
C11_CacheFirstMiss ==
    /\ [](CfMiss /\ ftch.net \in {"ok", "bad"} =>
            /\ ftch.out = "response"
            /\ ftch.resp = {Copy.resp}
            /\ ftch.net = "bad" => puts = {} /\ content = ftch.pre[CACHE_NAME]
            /\ ftch.net = "ok" =>
                 \/ puts = {Copy} /\ content = ftch.pre[CACHE_NAME]
                 \/ /\ puts = {}
                    /\ content \in {ftch.pre[CACHE_NAME],
                                     CachePut(ftch.pre[CACHE_NAME], Copy.req, Copy.resp)})
    /\ [][(ftch.pc = "cf_fetch" /\ ftch'.pc = "done" /\ ftch'.net # "fail") =>
            puts' = IF ftch'.net = "ok"
                    THEN puts \cup {[req |-> ftch.request,
                                     resp |-> NetResponse(ftch.request, "ok")]}
                    ELSE puts]_vars

\* a request with the cache-busting token missed, was answered ok, and its
\* copy has landed beside the entry of the bare path
C11_Witness ==
    /\ CfMiss /\ ftch.net = "ok" /\ puts = {}
    /\ ftch.request = Url("a.js", Token, "")
    /\ content = ftch.pre[CACHE_NAME] \cup {Copy}
    /\ \E e \in content : e.req = Url("a.js", "", "")

\* C12: a cache-first miss whose network fetch fails gives the caller the
\* error; no store is started, no namespace is changed, and the worker is
\* ready for the next event.
C12_MissNetworkFailure ==
    (CfMiss /\ ftch.net = "fail") =>
        /\ ftch.out = "error"
        /\ ftch.resp = {}
        /\ puts = {}
        /\ caches = ftch.pre
        /\ Quiescent

\* the miss of a key whose changed entry an upgrade had just evicted
C12_Witness ==
    /\ CfMiss /\ ftch.net = "fail" /\ ftch.out = "error"
    /\ PathKey(ftch.request) \in ftch.changed

\* a GET of the root key has ended
RootGet ==
    /\ ftch.pc = "done" /\ ftch.method = "GET"
    /\ PathKey(ftch.request) = "/"

\* C13: a GET of the root key goes to the network before the content
\* namespace is opened, whether or not an entry is cached; when the network
\* answers, its response is returned and a store of a copy is started, which
\* replaces the entry of the request when it lands; when the network fails
\* and no entry is cached, the caller gets the error.
C13_RootOnlineFirst ==
    /\ [](ftch.pc = "of_fetch" => ~ftch.opened /\ ftch.net = "none")
    /\ [](RootGet =>
            /\ ftch.net # "none"
            /\ ftch.net \in {"ok", "bad"} =>
                 /\ ftch.out = "response"
                 /\ ftch.resp = {Copy.resp}
                 /\ \/ puts = {Copy} /\ content = ftch.pre[CACHE_NAME]
                    \/ /\ puts = {}
                       /\ content \in {ftch.pre[CACHE_NAME],
                                        CachePut(ftch.pre[CACHE_NAME], Copy.req, Copy.resp)}
            /\ (ftch.net = "fail"
                /\ CacheMatch(ftch.pre[CACHE_NAME], ftch.request) = {}) =>
                 /\ ftch.out = "error" /\ ftch.resp = {}
                 /\ puts = {} /\ caches = ftch.pre)
    /\ [][(ftch.pc # "done" /\ ftch'.pc = "done" /\ ftch'.method = "GET"
           /\ PathKey(ftch'.request) = "/" /\ ftch'.net # "fail") =>
            puts' = puts \cup {[req |-> ftch'.request,
                                resp |-> NetResponse(ftch'.request, ftch'.net)]}]_vars

\* the root entry held the document of an old manifest; the network answered
\* and the copy has taken the entry's place
C13_Witness ==
    /\ RootGet /\ ftch.net = "ok" /\ puts = {}
    /\ \E e \in ftch.pre[CACHE_NAME] :
          /\ Matches(e, ftch.request)
          /\ e.resp # Copy.resp
          /\ content = (ftch.pre[CACHE_NAME] \ {e}) \cup {Copy}

\* install has staged every resource of the Core List as the server has it
Staged ==
    \A i \in 1..Len(CORE) :
        CacheMatch(caches[TEMP], CoreRequests[i])
            = {NetResponse(CoreRequests[i], "ok")}

\* the activation has copied what was staged, discarded the staging
\* namespace and persisted the current manifest
Migrated ==
    /\ act.pre[TEMP] \subseteq content
    /\ caches[TEMP] = {}
    /\ caches[MANIFEST] = ManifestRecord(RESOURCES)

\* C14 as stated: the install signal fulfils (Installed) only once the Core
\* List is staged, and the activate signal fulfils (Active) only once the
\* diff/overlay has finished and the current manifest is persisted.
C14_Original ==
    /\ (inst.pc = "done" /\ InstallSignal = "fulfilled") => Staged
    /\ ActivateSignal = "fulfilled" => Migrated

\* C14, amended: the install signal fulfils only once the Core List is
\* staged; the activate signal fulfils only once the diff/overlay has
\* finished and the current manifest is persisted, or once a failed
\* activation has deleted the three namespaces.
C14_Lifecycle ==
    /\ (inst.pc = "done" /\ InstallSignal = "fulfilled") => Staged
    /\ ActivateSignal = "fulfilled" =>
         \/ act.result = "ok" /\ Migrated
         \/ act.result = "reset" /\ \A n \in Names : caches[n] = {}

\* after an install that succeeded, the activation failed and its signal
\* fulfilled with no manifest persisted
C14_Witness ==
    /\ ActivateSignal = "fulfilled"
    /\ act.before = <<"install", "ok">>
    /\ act.result = "reset"
    /\ caches[MANIFEST] = {}

\* C15: when the staging namespace cannot be opened or the fetch of a Core
\* List entry fails or is answered with an error status, the install signal
\* rejects (Installed is not reached), and the content and manifest-record
\* namespaces are as they were: nothing is promoted.
C15_InstallFailure ==
    (inst.pc = "done" /\ inst.result = "failed") =>
        /\ InstallSignal = "rejected"
        /\ caches[CACHE_NAME] = inst.pre[CACHE_NAME]
        /\ caches[MANIFEST] = inst.pre[MANIFEST]

\* an install failed on a worker that had content and a record
C15_Witness ==
    /\ inst.pc = "done" /\ InstallSignal = "rejected"
    /\ inst.pre[CACHE_NAME] # {} /\ inst.pre[MANIFEST] # {}

\* C16: an activation after one that failed and reset (directly, or with an
\* install in between) takes the fresh-install branch; when that install
\* and the activation succeed, the content namespace holds the staged
\* entries and no other, and the current manifest is persisted; and an
\* activation that has ended runs again only when the host dispatches one.
C16_RecoveryAfterReset ==
    /\ []((act.afterReset /\ act.branch # "none") => act.branch = "fresh")
    /\ []((ActFinished("ok") /\ act.afterReset
           /\ act.before = <<"install", "ok">>) =>
            /\ content = act.pre[TEMP]
            /\ CacheKeys(content) = {CoreRequests[i] : i \in 1..Len(CORE)}
            /\ caches[MANIFEST] = ManifestRecord(RESOURCES))
    /\ [][(act.pc = "done" /\ act'.pc \notin {"done", "idle"}) =>
            nEvents' = nEvents + 1]_vars

\* a failed activation, then an install and an activation that succeeded
C16_Witness ==
    /\ ActFinished("ok") /\ act.afterReset
    /\ act.before = <<"install", "ok">>
    /\ act.branch = "fresh"
    /\ content # {}

\* downloadOffline has run to its end
Hydrated == hyd.pc = "done" /\ hyd.data = "downloadOffline"

\* the keys of the current manifest that no entry of cache c has for its key
NoEntry(c) ==
    {k \in DOMAIN RESOURCES : Str(k, "", "") \notin {KeyOf(r) : r \in CacheKeys(c)}}

\* C17 as stated: the hydrator asks for the manifest keys that have no entry
\* in the content namespace and for no other; every entry that was in the
\* content namespace is still there with its key and its value; and the
\* staging and manifest-record namespaces are as they were.
C17_Original ==
    Hydrated =>
        /\ hyd.resources = NoEntry(hyd.pre[CACHE_NAME])
        /\ hyd.pre[CACHE_NAME] \subseteq content
        /\ caches[TEMP] = hyd.pre[TEMP]
        /\ caches[MANIFEST] = hyd.pre[MANIFEST]

\* C18: a downloadOffline that finds an entry for every manifest key, as one
\* dispatched right after a downloadOffline that succeeded does, asks for
\* nothing, makes no network fetch and leaves every namespace as it was.
C18_HydratorIdempotent ==
    (Hydrated /\ (NoEntry(hyd.pre[CACHE_NAME]) = {} \/ hyd.again)) =>
        /\ hyd.resources = {}
        /\ ~hyd.net
        /\ hyd.result = "ok"
        /\ caches = hyd.pre

\* the second of two runs, on a content namespace that holds every resource
\* of the manifest
C18_Witness ==
    /\ Hydrated /\ hyd.again
    /\ \A k \in DOMAIN RESOURCES : CacheMatch(content, Request(k)) # {}

\* the handler of the event being handled has work outstanding
InstallWorking == inst.pc \notin {"idle", "done"}
ActivateWorking == act.pc \notin {"idle", "done"}
HydratorWorking == hyd.pc \notin {"idle", "done"}

\* C19 as stated: while the staging of install, the diff/overlay of activate
\* or the hydration started by a message is outstanding, the host holds a
\* pending completion signal of the handler.
C19_Original ==
    /\ InstallWorking => InstallSignal = "pending"
    /\ ActivateWorking => ActivateSignal = "pending"
    /\ HydratorWorking => MessageSignal = "pending"

\* the content namespace as an activation that started on act.pre and ran
\* alone leaves it: the entries that pass the eviction test are gone (all of
\* them in the fresh-install branch), and the staged entries are copied over
\* the rest
PostContent ==
    LET kept == IF act.branch = "upgrade"
                THEN {e \in act.pre[CACHE_NAME] : ~Evict(e.req, act.oldManifest)}
                ELSE {}
    IN  {e \in kept : CacheMatch(act.pre[TEMP], e.req) = {}} \cup act.pre[TEMP]

\* a GET of a manifest key was dispatched while an activation was at an
\* await; both have ended, the activation with success
Raced ==
    /\ ftch.pc = "done" /\ ftch.raced /\ ftch.method = "GET"
    /\ PathKey(ftch.request) \in DOMAIN RESOURCES
    /\ ActFinished("ok")

\* the responses the network can give to the request
NetResponses(u) == {NetResponse(u, o) : o \in NetOutcomes(u) \ {"fail"}}

\* C20 as stated: a fetch that raced with the activation returns an entry
\* the content namespace held before the activation or holds after it, or a
\* network response; it ends in an error only if the same request could end
\* in one before or after the activation, that is, if one of the two states
\* has no entry for it.
C20_Original ==
    Raced =>
        LET before == CacheMatch(act.pre[CACHE_NAME], ftch.request)
            after == CacheMatch(PostContent, ftch.request)
        IN  /\ ftch.out \in {"response", "error"}
            /\ ftch.out = "response" =>
                 ftch.resp \subseteq before \cup after \cup NetResponses(ftch.request)
            /\ ftch.out = "error" => (before = {} \/ after = {})

\* C20, amended: a fetch that raced with the activation returns an entry the
\* content namespace held before the activation or holds after it, or a
\* network response; or it ends in the network's error, when it found no
\* entry and the network call failed, which can happen for a key that has an
\* entry both before and after the activation.
C20_RacedFetch ==
    Raced =>
        LET before == CacheMatch(act.pre[CACHE_NAME], ftch.request)
            after == CacheMatch(PostContent, ftch.request)
        IN  /\ ftch.out \in {"response", "error"}
            /\ ftch.out = "response" =>
                 ftch.resp \subseteq before \cup after \cup NetResponses(ftch.request)
            /\ ftch.out = "error" => ftch.net = "fail"

\* a fetch of a resource that was cached before the activation and is cached
\* after it came between the eviction and the overlay, and the network failed
C20_Witness ==
    /\ Raced /\ ftch.out = "error"
    /\ CacheMatch(act.pre[CACHE_NAME], ftch.request) # {}
    /\ CacheMatch(PostContent, ftch.request) # {}
    /\ CacheMatch(content, ftch.request) # {}

\* C21: after an activation that runs to its end with success, whether or
\* not an activation before it was stopped at an await, every entry of the
\* content namespace names a path of the current manifest, and an entry
\* with an ok status carries the data of the current fingerprint of its
\* path.
C21_CrashTolerance ==
    ActFinished("ok") =>
        \A e \in content :
            /\ PathKey(e.req) \in DOMAIN RESOURCES
            /\ e.resp.ok => e.resp.data = RESOURCES[PathKey(e.req)]

\* the activation before was stopped after it had evicted or copied
\* entries, with the record of the old manifest still in place
C21_Witness ==
    /\ ActFinished("ok")
    /\ act.before = <<"activate", "stopped">>
    /\ act.branch = "upgrade"
    /\ act.pre[CACHE_NAME] # {}
    /\ act.pre[TEMP] = {}
    /\ \E e \in act.pre[CACHE_NAME] : e \notin content

\* C22: a skipWaiting message asks the host to skip the wait and does
\* nothing else; a message that is neither skipWaiting nor downloadOffline
\* does nothing; neither changes a namespace nor starts the hydrator; and a
\* run of the hydrator starts only with a downloadOffline message, once per
\* message, and runs to its end.
C22_ControlMessages ==
    /\ [](hyd.data # "downloadOffline" =>
            /\ hyd.pc \in {"idle", "done"}
            /\ hyd.result = "none" /\ ~hyd.net /\ hyd.resources = {})
    /\ []((hyd.pc = "done" /\ hyd.data \in {"skipWaiting", "other"}) =>
            /\ host.skipWaiting = (hyd.data = "skipWaiting")
            /\ ~host.claimed
            /\ caches = hyd.pre)
    /\ []((hyd.pc = "done" /\ hyd.data = "downloadOffline") =>
            hyd.result \in {"ok", "failed"} /\ ~host.skipWaiting)
    /\ [][(hyd'.pc = "open" /\ hyd.pc # "open") =>
            /\ hyd'.data = "downloadOffline"
            /\ nEvents' = nEvents + 1]_vars

\* a skipWaiting message was handled by a worker with a record, content and
\* staged entries
C22_Witness ==
    /\ hyd.pc = "done" /\ hyd.data = "skipWaiting" /\ host.skipWaiting
    /\ \A n \in Names : caches[n] # {}

\* a GET of a manifest key other than the root that carries the
\* cache-busting token has ended
TokenGet ==
    /\ ftch.pc = "done" /\ ftch.method = "GET"
    /\ ftch.request.q = Token
    /\ PathKey(ftch.request) \in DOMAIN RESOURCES \ {"/"}

\* the URL of a request without its token
Bare(u) == [u EXCEPT !.q = ""]

\* the requests for the root document: the empty path, a navigation to a
\* fragment of it, and the empty path with the token
RootRequests == {u \in RequestURLs : u.path = ""}

\* C23 as stated: a GET with the token is handled under the key of its bare
\* path and is answered with the entry stored for the bare path when there
\* is one, without a network fetch; and the requests for the root document
\* are handled under the root key.
C23_Original ==
    /\ (TokenGet /\ CacheMatch(ftch.pre[CACHE_NAME], Bare(ftch.request)) # {}) =>
         /\ ftch.key = Bare(ftch.request)
         /\ ftch.out = "response"
         /\ ftch.resp = CacheMatch(ftch.pre[CACHE_NAME], Bare(ftch.request))
         /\ ftch.net = "none"
    /\ (ftch.pc = "done" /\ ftch.request \in RootRequests) => ftch.key = RootKey

\* C23, amended: a GET with the token is classified under the key of its
\* bare path, but the content namespace is looked up with the request's own
\* URL: it is answered with the entry stored for that URL when there is
\* one, and goes to the network when there is none, whether or not the bare
\* path has an entry; and the requests for the root document are handled
\* under the root key, with the network asked first.
C23_Normalization ==
    /\ TokenGet =>
         /\ ftch.key = Bare(ftch.request)
         /\ CacheMatch(ftch.pre[CACHE_NAME], ftch.request) # {} =>
              /\ ftch.resp = CacheMatch(ftch.pre[CACHE_NAME], ftch.request)
              /\ ftch.net = "none"
         /\ CacheMatch(ftch.pre[CACHE_NAME], ftch.request) = {} =>
              /\ ftch.net # "none"
              /\ ftch.resp \subseteq NetResponses(ftch.request)
    /\ (ftch.pc = "done" /\ ftch.request \in RootRequests) =>
         /\ ftch.key = RootKey
         /\ ftch.method = "GET" => ftch.net # "none"

\* a request with the token went to the network although the bare path had
\* an entry
C23_Witness ==
    /\ TokenGet /\ ftch.net = "ok"
    /\ CacheMatch(ftch.pre[CACHE_NAME], Bare(ftch.request)) # {}
    /\ ftch.resp # CacheMatch(ftch.pre[CACHE_NAME], Bare(ftch.request))

\* the upgrade branch is in its eviction pass, or past it
Evicting == act.branch = "upgrade" /\ act.pc \in {"u_content_keys", "u_delete"}
Overlaying ==
    /\ act.branch = "upgrade"
    /\ act.pc \in {"temp_keys", "temp_match", "content_put", "delete_temp",
                    "manifest_put", "claim"}

\* C24: in the upgrade branch nothing is written to the content namespace
\* while the eviction pass runs; once the pass is over, an entry the
\* content namespace holds for a key whose fingerprint changed is a staged
\* one, the entry that was there before being deleted; and no staged entry
\* that the overlay has written is removed by a later step of the
\* activation.
C24_EvictBeforeOverlay ==
    /\ [](Evicting => content \subseteq act.pre[CACHE_NAME])
    /\ [](Overlaying =>
            \A e \in content :
                PathKey(e.req) \in Changed(act.oldManifest) => e \in act.pre[TEMP])
    /\ [][Overlaying =>
            \A e \in act.pre[TEMP] : e \in content => e \in content']_vars
    /\ []((ActFinished("ok") /\ act.branch = "upgrade") =>
            act.pre[TEMP] \subseteq content)

\* the overlay has begun on a content namespace from which the pass had
\* deleted the old entry of a staged resource and that of another one
C24_Witness ==
    /\ Overlaying /\ act.pc = "content_put"
    /\ \E e \in act.pre[CACHE_NAME] :
          /\ PathKey(e.req) \in Changed(act.oldManifest)
          /\ CacheMatch(act.pre[TEMP], e.req) # {}
          /\ CacheMatch(content, e.req) = {}
    /\ \E e \in act.pre[CACHE_NAME] :
          /\ PathKey(e.req) \in Changed(act.oldManifest)
          /\ CacheMatch(act.pre[TEMP], e.req) = {}

\* the key the activation derives from an entry is a key of the current
\* manifest, and its fingerprint is the one the old manifest gives
Current(e) ==
    /\ e.req.q = "" /\ e.req.frag = ""
    /\ PathKey(e.req) \in DOMAIN RESOURCES
Unchanged(e, oldManifest) ==
    /\ PathKey(e.req) \in DOMAIN oldManifest
    /\ oldManifest[PathKey(e.req)] = RESOURCES[PathKey(e.req)]

\* C25: when the eviction pass of the upgrade branch is over, the content
\* namespace holds the entries it held whose key has a fingerprint in the
\* current manifest that the old manifest gives too, and no other; and when
\* the activation has succeeded, those of them with no staged counterpart
\* are there as they were.
C25_EvictsExactly ==
    /\ (act.branch = "upgrade" /\ act.pc = "temp_keys") =>
         content = {e \in act.pre[CACHE_NAME] :
                       Current(e) /\ Unchanged(e, act.oldManifest)}
    /\ (ActFinished("ok") /\ act.branch = "upgrade") =>
         \A e \in act.pre[CACHE_NAME] :
             (Current(e) /\ Unchanged(e, act.oldManifest)
              /\ CacheMatch(act.pre[TEMP], e.req) = {}) => e \in content

\* the pass deleted the entry of a resource the old manifest did not have
\* and kept another entry
C25_Witness ==
    /\ act.branch = "upgrade" /\ act.pc = "temp_keys"
    /\ content # {}
    /\ \E e \in act.pre[CACHE_NAME] :
          /\ Current(e) /\ PathKey(e.req) \notin DOMAIN act.oldManifest
          /\ e \notin content

\* C26: after an activation that succeeded, the content namespace answers
\* every request that was staged when the activation started with the
\* staged response, whether or not it held an entry for it that the
\* eviction pass had kept.
C26_StagedWin ==
    ActFinished("ok") =>
        \A e \in act.pre[TEMP] : CacheMatch(content, e.req) = {e.resp}

\* an upgrade copied a staged entry over an entry of the same key that the
\* eviction pass had kept
C26_Witness ==
    /\ ActFinished("ok") /\ act.branch = "upgrade"
    /\ \E e \in act.pre[TEMP] :
          /\ CacheMatch(act.pre[CACHE_NAME], e.req) # {}
          /\ PathKey(e.req) \notin Changed(act.oldManifest)
    /\ \E e \in act.pre[TEMP] : PathKey(e.req) \in Changed(act.oldManifest)

\* C27, as stated: in a successful activation the manifest is persisted
\* before the staging namespace is discarded, so that an activation that has
\* not persisted the manifest yet still has its staging namespace.
C27_Original ==
    act.pc = "manifest_put" => caches[TEMP] = act.pre[TEMP]

\* C27: in a successful activation the staging namespace is discarded first,
\* then the current manifest is persisted as the new record, then the host
\* is signalled to claim: between the first two steps the staging namespace
\* is gone while the manifest record is still the old one, or still absent.
C27_FinalSteps ==
    /\ act.pc = "delete_temp" =>
          /\ caches[TEMP] = act.pre[TEMP]
          /\ caches[MANIFEST] = act.pre[MANIFEST]
          /\ ~host.claimed
    /\ act.pc = "manifest_put" =>
          /\ caches[TEMP] = {}
          /\ caches[MANIFEST] = act.pre[MANIFEST]
          /\ ~host.claimed
    /\ act.pc = "claim" =>
          /\ caches[TEMP] = {}
          /\ caches[MANIFEST] = ManifestRecord(RESOURCES)
          /\ ~host.claimed
    /\ ActFinished("ok") =>
          /\ caches[TEMP] = {}
          /\ caches[MANIFEST] = ManifestRecord(RESOURCES)
          /\ host.claimed

\* an upgrade has discarded a filled staging namespace and the record still
\* holds the old manifest
C27_Witness ==
    /\ act.pc = "manifest_put" /\ act.branch = "upgrade"
    /\ act.pre[TEMP] # {} /\ caches[TEMP] = {}
    /\ caches[MANIFEST] # {} /\ caches[MANIFEST] # ManifestRecord(RESOURCES)

\* C28: after every successful activation, of either branch, the staging
\* namespace is empty, so no resource entry is held by both the staging and
\* the content namespace once an activation has completed.
C28_Moved ==
    ActFinished("ok") =>
        /\ caches[TEMP] = {}
        /\ act.pre[TEMP] \subseteq content

\* an upgrade that started with staged entries succeeded: they are in the
\* content namespace and no longer in the staging namespace
C28_Witness ==
    /\ ActFinished("ok") /\ act.branch = "upgrade"
    /\ act.pre[TEMP] # {} /\ content # {} /\ caches[TEMP] = {}

\* C29: the install handler writes only the staging namespace: no step of
\* it changes the content namespace or the manifest-record namespace, and
\* when it has ended, with success or with failure, both are exactly as
\* they were when the install event was dispatched.
C29_InstallFrame ==
    /\ [](inst.pc = "done" =>
            /\ caches[CACHE_NAME] = inst.pre[CACHE_NAME]
            /\ caches[MANIFEST] = inst.pre[MANIFEST])
    /\ [][(inst' # inst /\ inst'.pc # "idle") =>
            /\ caches'[CACHE_NAME] = caches[CACHE_NAME]
            /\ caches'[MANIFEST] = caches[MANIFEST]]_vars

\* an install succeeded on a worker that had content and a record, and
\* changed the staging namespace
C29_Witness ==
    /\ inst.pc = "done" /\ inst.result = "ok"
    /\ caches[TEMP] # inst.pre[TEMP]
    /\ inst.pre[CACHE_NAME] # {} /\ inst.pre[MANIFEST] # {}

\* a step of the fetch handler, or of a store it started
FetchStepTaken ==
    /\ ftch' # ftch \/ puts' # puts
    /\ inst' = inst /\ act' = act /\ hyd' = hyd

\* C30: no fetch event, under either policy and whatever the network
\* answers, changes the staging namespace or the manifest-record namespace:
\* no step of the fetch handler and no store it started writes them, and
\* when the event and its store have ended both are as they were when the
\* event was dispatched.
C30_FetchFrame ==
    /\ []((ftch.pc = "done" /\ puts = {} /\ Settled(act)) =>
            /\ caches[TEMP] = ftch.pre[TEMP]
            /\ caches[MANIFEST] = ftch.pre[MANIFEST])
    /\ [][FetchStepTaken =>
            /\ caches'[TEMP] = caches[TEMP]
            /\ caches'[MANIFEST] = caches[MANIFEST]]_vars

\* a fetch event stored what the network answered on a worker that had
\* staged entries and a record
C30_Witness ==
    /\ ftch.pc = "done" /\ puts = {}
    /\ caches[CACHE_NAME] # ftch.pre[CACHE_NAME]
    /\ ftch.pre[TEMP] # {} /\ ftch.pre[MANIFEST] # {}

\* the catch block of the activate handler is running
Catching == act.pc \in {"c_delete_content", "c_delete_temp", "c_delete_manifest"}

\* C33: a failed activation is absorbed: after the full reset the activate
\* handler's completion signal fulfils, with no manifest persisted, and the
\* host is not signalled to claim on that attempt, neither while the catch
\* block runs nor once it has ended.
C33_FailureAbsorbed ==
    /\ Catching => (ActivateSignal = "pending" /\ ~host.claimed)
    /\ ActFinished("reset") =>
          /\ ActivateSignal = "fulfilled"
          /\ caches[MANIFEST] = {}
          /\ ~host.claimed

\* an upgrade of a worker that had a record and staged entries failed, and
\* its signal fulfilled
C33_Witness ==
    /\ ActFinished("reset") /\ ActivateSignal = "fulfilled"
    /\ act.pre[MANIFEST] # {} /\ act.pre[TEMP] # {}
    /\ act.branch = "upgrade"

\* the response the network gives with an error status
ErrorResponse == NetResponse(Empty, "bad")

\* C34: the online-first policy starts a store of every response the
\* network gives, whatever its status, while the cache-first policy starts
\* none for a response whose status is not ok; so when the root entry holds
\* an error-status response that an earlier root fetch stored and the
\* network fails, the root fetch returns that response.
C34_OnlineFirstStoresAny ==
    /\ [][(ftch.pc = "of_open" /\ ftch'.pc = "done") =>
            /\ ftch.net \in {"ok", "bad"}
            /\ puts' = puts \cup {[req |-> ftch.request,
                                    resp |-> NetResponse(ftch.request, ftch.net)]}]_vars
    /\ [][(ftch.pc = "cf_fetch" /\ ftch'.pc = "done" /\ ftch'.net = "bad") =>
            puts' = puts]_vars
    /\ []((RootGet /\ ftch.net = "fail"
           /\ CacheMatch(ftch.pre[CACHE_NAME], ftch.request) = {ErrorResponse}) =>
            /\ ftch.out = "response"
            /\ ftch.resp = {ErrorResponse})
    /\ [](\A e \in content :
            ~e.resp.ok => PathKey(e.req) = "/")

\* the network failed and a root fetch returned the error-status response
\* that the root entry held
C34_Witness ==
    /\ RootGet /\ ftch.net = "fail" /\ ftch.out = "response"
    /\ ftch.resp = {ErrorResponse}
    /\ CacheMatch(content, ftch.request) = {ErrorResponse}

\* C35: a fetch stores under the URL of its request, token included;
\* activation and the hydrator derive an entry's key from that URL with the
\* token in it.  So the eviction pass of an upgrade leaves no entry whose URL
\* carries the token, whatever the fingerprint of its path, and the hydrator
\* counts as missing the path of an entry stored with the token when no
\* entry is stored for the path without it.
C35_FullUrlKeys ==
    /\ [][\A p \in puts' \ puts : p.req = ftch.request]_vars
    /\ []((act.branch = "upgrade" /\ act.pc = "temp_keys") =>
            \A e \in act.pre[CACHE_NAME] : e.req.q # "" => e \notin content)
    /\ []((ActFinished("ok") /\ act.branch = "upgrade") =>
            \A e \in act.pre[CACHE_NAME] :
                (e.req.q # "" /\ CacheMatch(act.pre[TEMP], e.req) = {})
                    => e \notin content)
    /\ [](hyd.pc = "addAll" =>
            \A e \in content :
                (/\ e.req.q # ""
                 /\ PathKey(e.req) \in DOMAIN RESOURCES
                 /\ CacheMatch(content, Bare(e.req)) = {})
                    => PathKey(e.req) \in hyd.resources)

\* an upgrade evicted an entry that a request with the token had stored,
\* and the fingerprint of its path had not changed
C35_Witness ==
    /\ ActFinished("ok") /\ act.branch = "upgrade"
    /\ \E e \in act.pre[CACHE_NAME] :
          /\ e.req.q = Token
          /\ PathKey(e.req) \in DOMAIN RESOURCES
          /\ PathKey(e.req) \notin Changed(act.oldManifest)
          /\ e.resp = Resp(RESOURCES[PathKey(e.req)], TRUE)
          /\ CacheMatch(content, e.req) = {}

\* the hydrator asks for a path whose entry was stored with the token
TokenedCountedMissing ==
    /\ hyd.pc = "addAll"
    /\ \E e \in content :
          e.req.q = Token /\ PathKey(e.req) \in hyd.resources

\* the current manifest has no fingerprint for the key
Unrecognized(key) == Falsy(Get(RESOURCES, key))

\* the manifest has the key, with an empty fingerprint
EmptyIn(M, key) == Get(M, key) = ""

AfterRace == act.pc = "done" /\ Settled(ftch) /\ puts = {}

\* the response that holds the data of the current manifest's fingerprint
CurrentData(k) == Resp(RESOURCES[k], TRUE)

\* C31 as stated: once the activation has ended and every fetch and store
\* that was in flight has ended, every content entry for a manifest key holds
\* the data of the current manifest's fingerprint.
C31_Original ==
    AfterRace =>
        \A e \in content :
            PathKey(e.req) \in DOMAIN RESOURCES => e.resp = CurrentData(PathKey(e.req))

\* C31: with fetch events arriving at any await of an activation, once the
\* activation has ended and every fetch and store that was in flight has
\* ended, every content entry for a manifest key other than the root holds
\* the data of the current manifest's fingerprint, and the root entry holds
\* that data or the error-status response the network gave to an
\* online-first fetch: no entry holds data of an older fingerprint.
C31_SelfCorrection ==
    AfterRace =>
        \A e \in content :
            PathKey(e.req) \in DOMAIN RESOURCES =>
                \/ e.resp = CurrentData(PathKey(e.req))
                \/ PathKey(e.req) = "/" /\ e.resp = ErrorResponse

\* a fetch of a resource whose fingerprint changed started while the content
\* namespace still held an entry of an older fingerprint that the upgrade
\* removed; it missed, and its store landed after the eviction pass had read
\* the keys: the entry it left holds the current data
C31_Witness ==
    /\ AfterRace /\ ActFinished("ok") /\ act.branch = "upgrade"
    /\ ftch.raced /\ ftch.net = "ok"
    /\ PathKey(ftch.request) \in Changed(act.oldManifest)
    /\ CacheMatch(act.pre[TEMP], ftch.request) = {}
    /\ CacheMatch(content, ftch.request) = {CurrentData(PathKey(ftch.request))}
    /\ \E e \in ftch.pre[CACHE_NAME] :
          /\ PathKey(e.req) \in DOMAIN RESOURCES
          /\ e.resp # CurrentData(PathKey(e.req))
          /\ e \notin content

====
